---- MODULE Spec2Model ----
(***************************************************************************)
(* Model of the Political Dashboard (src/command02.py): loading and        *)
(* normalising the two sheets of Data2Add.xlsx, the Country Index, the     *)
(* four chart/query functions and the Compare Countries view.              *)
(*                                                                         *)
(* Numbers are fixed point: a proportion p is carried as p * 10000, so     *)
(* 1.0 is 10000, 0.25 is 2500 and the percentage 30 is 300000.  Every      *)
(* value the model feeds in divides exactly by 100 (twice).                *)
(*                                                                         *)
(* A DataFrame is [columns |-> sequence of column names,                   *)
(*                 rows    |-> sequence of [label, vals]]                  *)
(* where label is the cell of the sheet's label column and vals maps each  *)
(* country column of the frame to its cell.                                *)
(***************************************************************************)
EXTENDS Integers, Sequences, FiniteSets, TLC

VARIABLES raw_most_im, raw_sheet2, df_most_im, df_sheet2, countries,
          pc, session_state, result

vars == <<raw_most_im, raw_sheet2, df_most_im, df_sheet2, countries,
          pc, session_state, result>>

----------------------------------------------------------------------------
(* Program constants *)

MostImportantProblem == "Most Important Problem"
LeftRightOrientation == "Left-Right Orientation"
Proportion == "Proportion"

\* the literal 1 of "max() > 1"
One == 10000
\* the divisor of "/ 100"
Hundred == 100
\* the literal 0.1 of "abs(prop1 - prop2) > 0.1"
SignificantDifference == 1000
\* an empty spreadsheet cell as pd.read_excel delivers it
NaN == -1
\* an empty cell of the label column
NanLabel == "nan"

----------------------------------------------------------------------------
(* Bounds of the model *)

\* number of data rows of each input sheet
NumRows == 2

\* row labels, in the order the sheets list them (not alphabetical)
AllProblemLabels == <<"Inflation", "Crime", "Health">>
AllOrientationLabels == <<"Right", "Left", "Centre">>
ProblemLabels == SubSeq(AllProblemLabels, 1, NumRows)
OrientationLabels == SubSeq(AllOrientationLabels, 1, NumRows)
\* the sheets of the specification of the views have two rows
ViewProblemLabels == <<"Inflation", "Crime">>
ViewOrientationLabels == <<"Right", "Left">>
\* a label no sheet holds, which a caller may still pass in a selection
ForeignLabel == "Other"

\* names a country column may carry
CountryNames == {"AT", "BE"}

\* Python's ordering of the strings that occur as column names
Alphabet == <<"AT", "BE", "CY", LeftRightOrientation, MostImportantProblem>>

----------------------------------------------------------------------------
(* Helpers over sequences and frames *)

Range(s) == {s[i] : i \in 1..Len(s)}

\* s[1:]
Rest(s) == IF s = <<>> THEN <<>> ELSE Tail(s)

Abs(x) == IF x < 0 THEN 0 - x ELSE x

SetMax(S) == CHOOSE x \in S : \A y \in S : y <= x

\* the frame no call has produced
NoFrame == [columns |-> <<>>, rows |-> <<>>]

\* country columns of a frame: every column that is not its label column
CountryColumns(df, labelName) == Range(df.columns) \ {labelName}

\* df[labelName]: the label cells in row order
Labels(df) == [i \in 1..Len(df.rows) |-> df.rows[i].label]

\* Series.max(): the largest cell, skipping empty cells
ColumnMax(df, col) ==
    LET present == {df.rows[i].vals[col] : i \in 1..Len(df.rows)} \ {NaN}
    IN  IF present = {} THEN NaN ELSE SetMax(present)

\* sorted(list(S)) for a set of column names
SortedList(S) == SelectSeq(Alphabet, LAMBDA name : name \in S)

----------------------------------------------------------------------------
(* _load_data *)

\* a column holds no value at all
AllEmpty(df, labelName, col) ==
    IF col = labelName
    THEN \A i \in 1..Len(df.rows) : df.rows[i].label = NanLabel
    ELSE \A i \in 1..Len(df.rows) : df.rows[i].vals[col] = NaN

\* df.dropna(axis=1, how='all')
dropna(df, labelName) ==
    LET keep == SelectSeq(df.columns, LAMBDA col : ~AllEmpty(df, labelName, col))
        kept == Range(keep) \ {labelName}
    IN  [columns |-> keep,
         rows    |-> [i \in 1..Len(df.rows) |->
                        [label |-> df.rows[i].label,
                         vals  |-> [col \in kept |-> df.rows[i].vals[col]]]]]

\* df[col] = df[col] / 100 (an empty cell stays empty)
DivideColumn(df, col) ==
    [df EXCEPT !.rows =
        [i \in 1..Len(df.rows) |->
            [df.rows[i] EXCEPT !.vals[col] =
                IF @ = NaN THEN NaN ELSE @ \div Hundred]]]

\* the threshold test with >= in place of >
IsPercentage_AtLeastOne(df, col) == ColumnMax(df, col) >= One

\* the test "df[col].max() > 1"
IsPercentage(df, col) == ColumnMax(df, col) > One

\* the loop "for col in df.columns[1:]" over the columns still to visit
RECURSIVE NormalizeLoop(_, _)
NormalizeLoop(df, cols) ==
    IF cols = <<>> THEN df
    ELSE NormalizeLoop(IF IsPercentage(df, Head(cols))
                       THEN DivideColumn(df, Head(cols)) ELSE df,
                       Tail(cols))

\* the loop compares a string with 1 when it meets the label column:
\* TypeError, which _load_data does not catch
LoopRaises(df, labelName) == labelName \in Range(Rest(df.columns))

Normalize(df) == NormalizeLoop(df, Rest(df.columns))

\* a validation that looks at the 'Most Im' sheet only
MissingLabelColumn_FirstSheetOnly(most_im, sheet2) ==
    MostImportantProblem \notin Range(most_im.columns)

\* the two "not in df.columns" tests, each followed by st.error and st.stop
MissingLabelColumn(most_im, sheet2) ==
    \/ MostImportantProblem \notin Range(most_im.columns)
    \/ LeftRightOrientation \notin Range(sheet2.columns)

\* the outcome of _load_data on the two sheets as read
load_data(most_im, sheet2) ==
    IF MissingLabelColumn(most_im, sheet2)
    THEN [status |-> "stopped", most_im |-> NoFrame, sheet2 |-> NoFrame]
    ELSE LET m == dropna(most_im, MostImportantProblem)
             s == dropna(sheet2, LeftRightOrientation)
         IN  IF LoopRaises(m, MostImportantProblem)
                \/ LoopRaises(s, LeftRightOrientation)
             THEN [status |-> "crashed", most_im |-> NoFrame, sheet2 |-> NoFrame]
             ELSE [status |-> "loaded", most_im |-> Normalize(m),
                   sheet2 |-> Normalize(s)]

----------------------------------------------------------------------------
(* _get_common_countries *)

get_common_countries(most_im, sheet2) ==
    SortedList(Range(Rest(most_im.columns)) \cap Range(Rest(sheet2.columns)))

----------------------------------------------------------------------------
(* The chart functions: each returns a figure and a table; the model keeps  *)
(* the table and the annotations added to the figure.                       *)

\* a row filter that keeps every row
FilterRows_All(df, selected) == df

\* the row filter with the mask negated
FilterRows_Negated(df, selected) ==
    [columns |-> df.columns,
     rows    |-> SelectSeq(df.rows, LAMBDA row : row.label \notin selected)]

\* df[df[label].isin(selected)]
FilterRows(df, selected) ==
    [columns |-> df.columns,
     rows    |-> SelectSeq(df.rows, LAMBDA row : row.label \in selected)]

\* _create_most_important_chart: the filtered frame, with all its columns
create_most_important_chart(df, country, selected_issues) ==
    FilterRows(df, selected_issues)

\* filtered_df[[label, country]].rename(columns={country: "Proportion"})
create_political_orientation_chart(df, country, selected_orientations) ==
    LET filtered_df == FilterRows(df, selected_orientations)
    IN  [columns |-> <<LeftRightOrientation, Proportion>>,
         rows    |-> [i \in 1..Len(filtered_df.rows) |->
                        [label |-> filtered_df.rows[i].label,
                         vals  |-> [c \in {Proportion} |->
                                      filtered_df.rows[i].vals[country]]]]]

\* the rows melt() emits for one value column: one per row of the frame
MeltColumn(filtered_df, country) ==
    [i \in 1..Len(filtered_df.rows) |->
        [label      |-> filtered_df.rows[i].label,
         Country    |-> country,
         Proportion |-> filtered_df.rows[i].vals[country]]]

\* melt stacking the first country's column twice
melt_FirstTwice(filtered_df, country1, country2) ==
    MeltColumn(filtered_df, country1) \o MeltColumn(filtered_df, country1)

\* melt stacking the second country's column before the first's
melt_SecondFirst(filtered_df, country1, country2) ==
    MeltColumn(filtered_df, country2) \o MeltColumn(filtered_df, country1)

\* filtered_df[[label, country1, country2]].melt(id_vars=label, ...):
\* the value columns are stacked one after the other, in column order
melt(filtered_df, country1, country2) ==
    MeltColumn(filtered_df, country1) \o MeltColumn(filtered_df, country2)

\* the significance test with >= in place of >
IsSignificant_AtLeast(prop1, prop2) ==
    /\ prop1 # NaN
    /\ prop2 # NaN
    /\ Abs(prop1 - prop2) >= SignificantDifference

\* the test "abs(prop1 - prop2) > 0.1"; a comparison with NaN is False
IsSignificant(prop1, prop2) ==
    /\ prop1 # NaN
    /\ prop2 # NaN
    /\ Abs(prop1 - prop2) > SignificantDifference

\* the labels fig.add_annotation is called for
Annotations(filtered_df, country1, country2) ==
    {filtered_df.rows[i].label : i \in
        {j \in 1..Len(filtered_df.rows) :
            IsSignificant(filtered_df.rows[j].vals[country1],
                          filtered_df.rows[j].vals[country2])}}

\* _create_comparison_issues_chart
create_comparison_issues_chart(df, country1, country2, selected_issues) ==
    LET filtered_df == FilterRows(df, selected_issues)
    IN  [long        |-> melt(filtered_df, country1, country2),
         annotations |-> Annotations(filtered_df, country1, country2)]

\* _create_comparison_orientation_chart: no annotation is added
create_comparison_orientation_chart(df, country1, country2, selected_orientations) ==
    LET filtered_df == FilterRows(df, selected_orientations)
    IN  [long        |-> melt(filtered_df, country1, country2),
         annotations |-> {}]

\* a pivot that looks a cell up by its label only
pivot_ByLabel(long) ==
    [error |-> "none",
     cells |-> [key \in {<<long[i].label, long[i].Country>> : i \in 1..Len(long)} |->
                  (CHOOSE row \in Range(long) : row.label = key[1]).Proportion]]

\* long.pivot(index=label, columns="Country", values="Proportion"):
\* ValueError when two rows share (label, Country), otherwise the wide table
\* as the map from (label, Country) to the proportion
pivot(long) ==
    IF \E i, j \in 1..Len(long) :
          i # j /\ long[i].label = long[j].label /\ long[i].Country = long[j].Country
    THEN [error |-> "ValueError", cells |-> <<>>]
    ELSE [error |-> "none",
          cells |-> [key \in {<<long[i].label, long[i].Country>> : i \in 1..Len(long)} |->
                       (CHOOSE row \in Range(long) :
                           row.label = key[1] /\ row.Country = key[2]).Proportion]]

\* _get_csv_download_link: csv_buffer.getvalue() is a bytes object and
\* bytes has no encode(), so the call raises AttributeError
get_csv_download_link == "AttributeError"

----------------------------------------------------------------------------
(* The sheets pd.read_excel may deliver *)

\* every ordering of a set of column names
Orderings(S) == {s \in [1..Cardinality(S) -> S] : Range(s) = S}

\* column layouts of a sheet: the label column at any position among the
\* country columns, or a sheet that lacks the label column
Layouts(labelName) ==
    UNION {Orderings(T) : T \in {U \in SUBSET ({labelName} \cup CountryNames) :
                                   U # {} /\ (labelName \notin U => Cardinality(U) = 1)}}

\* the sheet with the given layout, label cells and country cells
Sheet(layout, labelCells, cells) ==
    [columns |-> layout,
     rows    |-> [i \in 1..Len(labelCells) |->
                    [label |-> labelCells[i], vals |-> cells[i]]]]

\* the label column of an input sheet holds the labels or is empty
LabelCells(layout, labelName, labels) ==
    IF labelName \in Range(layout)
    THEN {labels, [i \in 1..Len(labels) |-> NanLabel]}
    ELSE {[i \in 1..Len(labels) |-> NanLabel]}

\* sheet is one of the sheets whose every country cell holds one of the values
IsSheet(sheet, labelName, labels, values) ==
    \E layout \in Layouts(labelName) :
      \E labelCells \in LabelCells(layout, labelName, labels) :
        \E cells \in [1..Len(labels) -> [Range(layout) \ {labelName} -> values]] :
          sheet = Sheet(layout, labelCells, cells)

\* a well-formed sheet whose every country cell holds the same value
UniformSheet(labelName, labels, v) ==
    Sheet(<<labelName, "AT", "BE">>, labels,
          [i \in 1..Len(labels) |-> [c \in {"AT", "BE"} |-> v]])

\* cell values of the loading specification: empty, 1.0, 100 and 150
LoadValues == {NaN, One, 100 * One, 150 * One}
LoadPlain == {One, 100 * One}

----------------------------------------------------------------------------
(* State *)

NoSession == [initialised |-> FALSE,
              theme |-> "light",
              selected_issues |-> <<>>,
              selected_orientations |-> <<>>,
              show_issues_chart |-> TRUE,
              show_orientation_chart |-> TRUE,
              last_country_mip |-> "None",
              last_country_po |-> "None"]

\* what the last call produced: the frame of a single-country chart or the
\* data table of a single-country view, the long table and annotations of a
\* comparison and, for the Compare Countries view, the data tables of its
\* two sections, the warnings shown, the multiselects asked with the default
\* each was given, and the exception that ended the call
NoResult == [fn |-> "none", country1 |-> "", country2 |-> "", selected |-> {},
             frame |-> NoFrame, long |-> <<>>, annotations |-> {},
             table |-> <<>>, issues_shown |-> FALSE,
             selected_o |-> {}, long_o |-> <<>>, table_o |-> <<>>,
             orientation_shown |-> FALSE, warnings |-> {},
             asked |-> {}, default_issues |-> <<>>, default_orientations |-> <<>>,
             error |-> "none"]

\* one sheet ranges over all sheets on the values, the other over the
\* uniform sheets on the plain values
InitWith(problems, orientations, values, plain) ==
    /\ \/ /\ IsSheet(raw_most_im, MostImportantProblem, problems, values)
          /\ \E v \in plain :
               raw_sheet2 = UniformSheet(LeftRightOrientation, orientations, v)
       \/ /\ \E v \in plain :
               raw_most_im = UniformSheet(MostImportantProblem, problems, v)
          /\ IsSheet(raw_sheet2, LeftRightOrientation, orientations, values)
    /\ df_most_im = NoFrame
    /\ df_sheet2 = NoFrame
    /\ countries = <<>>
    /\ pc = "start"
    /\ session_state = NoSession
    /\ result = NoResult

InitLoad == InitWith(ProblemLabels, OrientationLabels, LoadValues, LoadPlain)

----------------------------------------------------------------------------
(* PoliticalDashboard.__init__ *)

\* self.df_most_im, self.df_sheet2 = PoliticalDashboard._load_data()
LoadData ==
    /\ pc = "start"
    /\ LET out == load_data(raw_most_im, raw_sheet2)
       IN  /\ pc' = out.status
           /\ df_most_im' = out.most_im
           /\ df_sheet2' = out.sheet2
    /\ UNCHANGED <<raw_most_im, raw_sheet2, countries, session_state, result>>

\* self.countries = PoliticalDashboard._get_common_countries(...)
GetCommonCountries ==
    /\ pc = "loaded"
    /\ LET found == get_common_countries(df_most_im, df_sheet2)
       IN  /\ countries' = found
           /\ pc' = IF found = <<>> THEN "stopped" ELSE "indexed"
    /\ UNCHANGED <<raw_most_im, raw_sheet2, df_most_im, df_sheet2,
                   session_state, result>>

\* the session-state defaults; df["Most Important Problem"] raises KeyError
\* when the frame has lost its label column
InitSession ==
    /\ pc = "indexed"
    /\ IF MostImportantProblem \in Range(df_most_im.columns)
          /\ LeftRightOrientation \in Range(df_sheet2.columns)
       THEN /\ pc' = "ready"
            /\ session_state' =
                 IF session_state.initialised THEN session_state
                 ELSE [NoSession EXCEPT !.initialised = TRUE,
                                        !.selected_issues = Labels(df_most_im),
                                        !.selected_orientations = Labels(df_sheet2)]
       ELSE /\ pc' = "crashed"
            /\ UNCHANGED session_state
    /\ UNCHANGED <<raw_most_im, raw_sheet2, df_most_im, df_sheet2, countries, result>>

----------------------------------------------------------------------------
(* Calls of the chart functions on the loaded tables.  The functions read  *)
(* their arguments only, so a behaviour applies one function once.          *)

\* the selections a caller may pass: any set of the table's labels and of
\* the label the table does not hold
SelectionSets(df) == SUBSET (Range(Labels(df)) \cup {ForeignLabel})

\* the country arguments a caller may pass: the names the sheets give their
\* country columns and a name no sheet holds
AnyCountry == CountryNames \cup {"CY"}

\* _create_most_important_chart called with one of the candidate countries;
\* px.bar raises ValueError when x names no column of the frame
MostImportantChartCall(candidates) ==
    /\ pc = "ready"
    /\ result = NoResult
    /\ \E country \in candidates, selected \in SelectionSets(df_most_im) :
         result' = IF country \in Range(df_most_im.columns)
                   THEN [NoResult EXCEPT
                           !.fn = "_create_most_important_chart",
                           !.country1 = country,
                           !.selected = selected,
                           !.frame = create_most_important_chart(df_most_im, country, selected)]
                   ELSE [NoResult EXCEPT
                           !.fn = "_create_most_important_chart",
                           !.country1 = country,
                           !.selected = selected,
                           !.error = "ValueError"]
    /\ UNCHANGED <<raw_most_im, raw_sheet2, df_most_im, df_sheet2, countries,
                   pc, session_state>>

\* _create_political_orientation_chart called with one of the candidate
\* countries; filtered_df[[label, country]] raises KeyError when the frame
\* has no such column
PoliticalOrientationChartCall(candidates) ==
    /\ pc = "ready"
    /\ result = NoResult
    /\ \E country \in candidates, selected \in SelectionSets(df_sheet2) :
         result' = IF country \in Range(df_sheet2.columns)
                   THEN [NoResult EXCEPT
                           !.fn = "_create_political_orientation_chart",
                           !.country1 = country,
                           !.selected = selected,
                           !.frame = create_political_orientation_chart(df_sheet2, country, selected)]
                   ELSE [NoResult EXCEPT
                           !.fn = "_create_political_orientation_chart",
                           !.country1 = country,
                           !.selected = selected,
                           !.error = "KeyError"]
    /\ UNCHANGED <<raw_most_im, raw_sheet2, df_most_im, df_sheet2, countries,
                   pc, session_state>>

\* _create_comparison_issues_chart called with a pair of the candidate
\* countries; filtered_df[[label, country1, country2]] raises KeyError when
\* the frame lacks one of the columns
ComparisonIssuesChartCall(candidates) ==
    /\ pc = "ready"
    /\ result = NoResult
    /\ \E country1, country2 \in candidates, selected \in SelectionSets(df_most_im) :
         result' = IF {country1, country2} \subseteq Range(df_most_im.columns)
                   THEN LET out == create_comparison_issues_chart(df_most_im, country1,
                                                                  country2, selected)
                        IN  [NoResult EXCEPT
                               !.fn = "_create_comparison_issues_chart",
                               !.country1 = country1,
                               !.country2 = country2,
                               !.selected = selected,
                               !.long = out.long,
                               !.annotations = out.annotations]
                   ELSE [NoResult EXCEPT
                           !.fn = "_create_comparison_issues_chart",
                           !.country1 = country1,
                           !.country2 = country2,
                           !.selected = selected,
                           !.error = "KeyError"]
    /\ UNCHANGED <<raw_most_im, raw_sheet2, df_most_im, df_sheet2, countries,
                   pc, session_state>>

\* _create_comparison_orientation_chart called with a pair of the candidate
\* countries
ComparisonOrientationChartCall(candidates) ==
    /\ pc = "ready"
    /\ result = NoResult
    /\ \E country1, country2 \in candidates, selected \in SelectionSets(df_sheet2) :
         result' = IF {country1, country2} \subseteq Range(df_sheet2.columns)
                   THEN LET out == create_comparison_orientation_chart(df_sheet2, country1,
                                                                       country2, selected)
                        IN  [NoResult EXCEPT
                               !.fn = "_create_comparison_orientation_chart",
                               !.country1 = country1,
                               !.country2 = country2,
                               !.selected = selected,
                               !.long = out.long,
                               !.annotations = out.annotations]
                   ELSE [NoResult EXCEPT
                           !.fn = "_create_comparison_orientation_chart",
                           !.country1 = country1,
                           !.country2 = country2,
                           !.selected = selected,
                           !.error = "KeyError"]
    /\ UNCHANGED <<raw_most_im, raw_sheet2, df_most_im, df_sheet2, countries,
                   pc, session_state>>

\* the calls the views make: the countries come from the Country Index
CreateMostImportantChart == MostImportantChartCall(Range(countries))

CreatePoliticalOrientationChart == PoliticalOrientationChartCall(Range(countries))

CreateComparisonIssuesChart == ComparisonIssuesChartCall(Range(countries))

CreateComparisonOrientationChart == ComparisonOrientationChartCall(Range(countries))

\* the calls of any caller: nothing stops a caller from passing a country
\* that is not in the Country Index
CallMostImportantChart == MostImportantChartCall(AnyCountry)

CallPoliticalOrientationChart == PoliticalOrientationChartCall(AnyCountry)

CallComparisonIssuesChart == ComparisonIssuesChartCall(AnyCountry)

CallComparisonOrientationChart == ComparisonOrientationChartCall(AnyCountry)

----------------------------------------------------------------------------
(* The data tables of the views *)

\* a percentage format that leaves out the factor 100
format_percent_Unscaled(x) == IF x = NaN THEN NaN ELSE (x + 500) \div 1000

\* f"{x*100:.1f}%": the text is carried as its number of tenths of a percent
\* (36.0% is 360), rounded to the nearest tenth; an empty cell reads "nan%"
format_percent(x) == IF x = NaN THEN NaN ELSE (x + 5) \div 10

\* filtered_df[[label, country]].copy(): a frame of its own with two columns
copy_columns(filtered_df, labelName, country) ==
    [columns |-> <<labelName, country>>,
     rows    |-> [i \in 1..Len(filtered_df.rows) |->
                    [label |-> filtered_df.rows[i].label,
                     vals  |-> [c \in {country} |-> filtered_df.rows[i].vals[country]]]]]

\* table_data[col] = table_data[col].apply(lambda x: f"{x*100:.1f}%")
format_column(table_data, col) ==
    [table_data EXCEPT !.rows =
        [i \in 1..Len(table_data.rows) |->
            [table_data.rows[i] EXCEPT !.vals[col] = format_percent(@)]]]

\* table_data.applymap(lambda x: f"{x*100:.1f}%") on a pivoted table
applymap(cells) == [key \in DOMAIN cells |-> format_percent(cells[key])]

\* a write of the formatted column that reaches the frame the view read
SourceAfterFormat_Shared(df, table_data, country) ==
    [df EXCEPT !.rows =
        [i \in 1..Len(df.rows) |->
            IF df.rows[i].label \in Range(Labels(table_data))
            THEN [df.rows[i] EXCEPT !.vals[country] = format_percent(@)]
            ELSE df.rows[i]]]

\* the frame the dashboard holds after a view has written the formatted
\* column: the view writes to table_data, which .copy() made a frame of its
\* own, so the frame the view read is as it was
SourceAfterFormat(df, table_data, country) == df

----------------------------------------------------------------------------
(* run and the views.  Every interaction of the user makes Streamlit run    *)
(* the script again: the constructor, then run().                           *)

\* a multiselect that may also return a label that is not an option
Multiselect_Unchecked(options) ==
    {SelectSeq(options \o <<ForeignLabel>>, LAMBDA label : label \in S) :
        S \in SUBSET (Range(options) \cup {ForeignLabel})}

\* what st.multiselect may return: any of the options, kept in option order
Multiselect(options) ==
    {SelectSeq(options, LAMBDA label : label \in S) : S \in SUBSET Range(options)}

\* run() up to the choice of the page, at the start of a run of the script:
\* the theme radio and the export button, whose link is built from the two
\* frames without changing them
Run ==
    /\ pc = "ready"
    /\ result = NoResult
    /\ \E theme \in {"light", "dark"}, export \in BOOLEAN :
         session_state' = [session_state EXCEPT !.theme = theme]
    /\ pc' = "page"
    /\ UNCHANGED <<raw_most_im, raw_sheet2, df_most_im, df_sheet2, countries, result>>

\* a tracking that keeps the first country it has seen
track_country_First(last, country) == IF last = "None" THEN country ELSE last

\* "if st.session_state.last_country_mip != country: ... = country"
track_country(last, country) == IF last # country THEN country ELSE last

\* One run of the Most Important Problems view.  The data table is shown
\* before the CSV link raises.
RenderMostImportantProblems ==
    /\ pc = "page"
    /\ \E country \in Range(countries), issues \in Multiselect(Labels(df_most_im)) :
         LET s1 == [session_state EXCEPT !.selected_issues = issues]
             filtered_df == create_most_important_chart(df_most_im, country, Range(issues))
             table_data == format_column(
                             copy_columns(filtered_df, MostImportantProblem, country),
                             country)
         IN  IF issues = <<>>
             THEN /\ session_state' = s1
                  /\ result' = [NoResult EXCEPT
                                  !.fn = "_render_most_important_problems",
                                  !.country1 = country,
                                  !.asked = {"issues"},
                                  !.default_issues = session_state.selected_issues,
                                  !.warnings = {"issues"}]
                  /\ UNCHANGED df_most_im
             ELSE /\ session_state' =
                       [s1 EXCEPT !.last_country_mip = track_country(@, country)]
                  /\ result' = [NoResult EXCEPT
                                  !.fn = "_render_most_important_problems",
                                  !.country1 = country,
                                  !.asked = {"issues"},
                                  !.default_issues = session_state.selected_issues,
                                  !.selected = Range(issues),
                                  !.frame = table_data,
                                  !.error = get_csv_download_link]
                  /\ df_most_im' = SourceAfterFormat(df_most_im, table_data, country)
    /\ pc' = "done"
    /\ UNCHANGED <<raw_most_im, raw_sheet2, df_sheet2, countries>>

\* One run of the Political Orientation view.
RenderPoliticalOrientation ==
    /\ pc = "page"
    /\ \E country \in Range(countries), orientations \in Multiselect(Labels(df_sheet2)) :
         LET s1 == [session_state EXCEPT !.selected_orientations = orientations]
             data == create_political_orientation_chart(df_sheet2, country,
                                                        Range(orientations))
             table_data == format_column(data, Proportion)
         IN  IF orientations = <<>>
             THEN /\ session_state' = s1
                  /\ result' = [NoResult EXCEPT
                                  !.fn = "_render_political_orientation",
                                  !.country1 = country,
                                  !.asked = {"orientations"},
                                  !.default_orientations =
                                      session_state.selected_orientations,
                                  !.warnings = {"orientations"}]
                  /\ UNCHANGED df_sheet2
             ELSE /\ session_state' =
                       [s1 EXCEPT !.last_country_po = track_country(@, country)]
                  /\ result' = [NoResult EXCEPT
                                  !.fn = "_render_political_orientation",
                                  !.country1 = country,
                                  !.asked = {"orientations"},
                                  !.default_orientations =
                                      session_state.selected_orientations,
                                  !.selected = Range(orientations),
                                  !.frame = table_data,
                                  !.error = get_csv_download_link]
                  /\ df_sheet2' = SourceAfterFormat(df_sheet2, table_data, country)
    /\ pc' = "done"
    /\ UNCHANGED <<raw_most_im, raw_sheet2, df_most_im, countries>>

\* One run of the Compare Countries view.  An exception raised in the issues
\* section (the pivot's ValueError, the CSV link's AttributeError) ends the
\* run before the orientation section, whose multiselect is then not asked.
RenderCompareCountries ==
    /\ pc = "page"
    /\ \E country1, country2 \in Range(countries), show_issues, show_orientation \in BOOLEAN :
       \E issues \in Multiselect(Labels(df_most_im)) :
         LET s1 == [session_state EXCEPT !.show_issues_chart = show_issues,
                                         !.show_orientation_chart = show_orientation,
                                         !.selected_issues = issues]
             doIssues == issues # <<>> /\ show_issues
             cmp == create_comparison_issues_chart(df_most_im, country1, country2,
                                                   Range(issues))
             tab == pivot(cmp.long)
             issuesError == IF ~doIssues THEN "none"
                            ELSE IF tab.error # "none" THEN tab.error
                            ELSE get_csv_download_link
         IN  \E orientations \in IF issuesError = "none"
                                 THEN Multiselect(Labels(df_sheet2))
                                 ELSE {session_state.selected_orientations} :
               LET s2 == [s1 EXCEPT !.selected_orientations = orientations]
                   doOrientation == /\ issuesError = "none"
                                    /\ orientations # <<>>
                                    /\ show_orientation
                   pol == create_comparison_orientation_chart(df_sheet2, country1,
                                                              country2, Range(orientations))
                   tabo == pivot(pol.long)
                   orientationError == IF ~doOrientation THEN "none"
                                       ELSE IF tabo.error # "none" THEN tabo.error
                                       ELSE get_csv_download_link
               IN  /\ session_state' = s2
                   /\ result' = [NoResult EXCEPT
                        !.fn = "_render_compare_countries",
                        !.country1 = country1,
                        !.country2 = country2,
                        !.selected = Range(issues),
                        !.long = IF doIssues THEN cmp.long ELSE <<>>,
                        !.annotations = IF doIssues THEN cmp.annotations ELSE {},
                        !.table = IF doIssues /\ tab.error = "none"
                                  THEN applymap(tab.cells) ELSE <<>>,
                        !.issues_shown = doIssues /\ tab.error = "none",
                        !.selected_o = IF issuesError = "none" THEN Range(orientations)
                                       ELSE {},
                        !.long_o = IF doOrientation THEN pol.long ELSE <<>>,
                        !.table_o = IF doOrientation /\ tabo.error = "none"
                                    THEN applymap(tabo.cells) ELSE <<>>,
                        !.orientation_shown = doOrientation /\ tabo.error = "none",
                        !.asked = IF issuesError = "none"
                                  THEN {"issues", "orientations"} ELSE {"issues"},
                        !.default_issues = session_state.selected_issues,
                        !.default_orientations =
                            IF issuesError = "none"
                            THEN session_state.selected_orientations ELSE <<>>,
                        !.warnings =
                            (IF issues = <<>> THEN {"issues"} ELSE {})
                            \cup (IF issuesError = "none" /\ orientations = <<>>
                                  THEN {"orientations"} ELSE {}),
                        !.error = IF issuesError # "none" THEN issuesError
                                  ELSE orientationError]
    /\ pc' = "done"
    /\ UNCHANGED <<raw_most_im, raw_sheet2, df_most_im, df_sheet2, countries>>

\* One run of the How to Use view: the guide, no state is touched.
RenderHowToUse ==
    /\ pc = "page"
    /\ result' = [NoResult EXCEPT !.fn = "_render_how_to_use"]
    /\ pc' = "done"
    /\ UNCHANGED <<raw_most_im, raw_sheet2, df_most_im, df_sheet2, countries,
                   session_state>>

\* The next interaction: the script runs again.  _load_data is cached and
\* returns the frames it returned before, the Country Index is computed
\* anew from them and the session state keeps its keys.
Rerun ==
    /\ pc = "done"
    /\ LET out == load_data(raw_most_im, raw_sheet2)
       IN  /\ df_most_im' = out.most_im
           /\ df_sheet2' = out.sheet2
           /\ countries' = get_common_countries(out.most_im, out.sheet2)
    /\ result' = NoResult
    /\ pc' = "ready"
    /\ UNCHANGED <<raw_most_im, raw_sheet2, session_state>>

----------------------------------------------------------------------------
(* Specifications *)

\* loading on sheets of many values
NextLoad == LoadData \/ GetCommonCountries \/ InitSession

SpecLoad == InitLoad /\ [][NextLoad]_vars

\* the chart functions on sheets holding 0.40 and the percentages 25 and 30
QueryValues == {4000, 25 * One, 30 * One}
QueryPlain == {4000}

InitQuery == InitWith(ProblemLabels, OrientationLabels, QueryValues, QueryPlain)

NextQuery ==
    \/ LoadData
    \/ GetCommonCountries
    \/ InitSession
    \/ CreateMostImportantChart
    \/ CreatePoliticalOrientationChart
    \/ CreateComparisonIssuesChart
    \/ CreateComparisonOrientationChart

SpecQuery == InitQuery /\ [][NextQuery]_vars

\* the dashboard with its views: 'Most Im' ranges over the sheets holding
\* the percentage 30, 'Sheet2' is the uniform sheet holding 0.40
ViewValues == {30 * One}
ViewPlain == {4000}

Init ==
    /\ InitWith(ViewProblemLabels, ViewOrientationLabels, ViewValues, ViewPlain)
    /\ \E v \in ViewPlain :
         raw_sheet2 = UniformSheet(LeftRightOrientation, ViewOrientationLabels, v)

Next ==
    \/ LoadData
    \/ GetCommonCountries
    \/ InitSession
    \/ Run
    \/ RenderMostImportantProblems
    \/ RenderPoliticalOrientation
    \/ RenderCompareCountries
    \/ RenderHowToUse
    \/ Rerun

Spec == Init /\ [][Next]_vars

\* the chart functions called by any caller, on the sheets of the views
NextCall ==
    \/ LoadData
    \/ GetCommonCountries
    \/ InitSession
    \/ CallMostImportantChart
    \/ CallPoliticalOrientationChart
    \/ CallComparisonIssuesChart
    \/ CallComparisonOrientationChart

SpecCall == Init /\ [][NextCall]_vars

\* the first run of the script on sheets whose country columns hold
\* percentages: 0.5, 36 and 36.27
TablePercent == {5000, 36 * One, 362700}
TablePlain == {36 * One}

InitFirstRun ==
    InitWith(ViewProblemLabels, ViewOrientationLabels, TablePercent, TablePlain)

NextFirstRun ==
    \/ LoadData
    \/ GetCommonCountries
    \/ InitSession
    \/ CreateMostImportantChart
    \/ CreatePoliticalOrientationChart
    \/ Run
    \/ RenderMostImportantProblems
    \/ RenderPoliticalOrientation
    \/ RenderCompareCountries
    \/ RenderHowToUse

SpecFirstRun == InitFirstRun /\ [][NextFirstRun]_vars

----------------------------------------------------------------------------
(* Vocabulary of the properties *)

\* _load_data has returned its two frames
Loaded == pc \in {"loaded", "indexed", "ready", "page", "done"}

\* _get_common_countries has returned the Country Index
Indexed == pc \in {"indexed", "ready", "page", "done"}

\* every value of every country column of the sheet is on the fractional
\* or on the percentage scale
InScale(sheet, labelName) ==
    \A i \in 1..Len(sheet.rows) : \A c \in CountryColumns(sheet, labelName) :
        sheet.rows[i].vals[c] = NaN
        \/ (0 <= sheet.rows[i].vals[c] /\ sheet.rows[i].vals[c] <= 100 * One)

\* every value of every non-label column of the frame lies in [0,1]
InUnitInterval(df, labelName) ==
    \A i \in 1..Len(df.rows) : \A c \in CountryColumns(df, labelName) :
        df.rows[i].vals[c] = NaN
        \/ (0 <= df.rows[i].vals[c] /\ df.rows[i].vals[c] <= One)

\* the frame holds, for each of its non-label columns, the sheet's values
\* divided by 100 where the column's maximum exceeds 1 and the sheet's
\* values otherwise
RescaledExactly(sheet, df, labelName) ==
    \A c \in CountryColumns(df, labelName) :
        IF ColumnMax(sheet, c) > One
        THEN \A i \in 1..Len(df.rows) :
                df.rows[i].vals[c] = IF sheet.rows[i].vals[c] = NaN THEN NaN
                                     ELSE sheet.rows[i].vals[c] \div Hundred
        ELSE \A i \in 1..Len(df.rows) : df.rows[i].vals[c] = sheet.rows[i].vals[c]

----------------------------------------------------------------------------
(* C1 *)

\* C1: after _load_data has returned, every cell of every non-label column
\* of both tables lies in [0,1], for every sheet whose country columns hold
\* values on the fractional or the percentage scale.
C1_UnitIntervalAfterLoad ==
    Loaded =>
        /\ (InScale(raw_most_im, MostImportantProblem)
              => InUnitInterval(df_most_im, MostImportantProblem))
        /\ (InScale(raw_sheet2, LeftRightOrientation)
              => InUnitInterval(df_sheet2, LeftRightOrientation))

(* C2 *)

\* C2: _load_data rescales a non-label column exactly when its maximum is
\* strictly greater than 1, dividing every value by 100, per column and per
\* table, and leaves every other non-label column unchanged.
C2_RescaleExactlyAboveOne ==
    Loaded =>
        /\ RescaledExactly(raw_most_im, df_most_im, MostImportantProblem)
        /\ RescaledExactly(raw_sheet2, df_sheet2, LeftRightOrientation)

(* C3 *)

\* C3 as stated: normalising the loaded tables a second time changes no cell.
C3_IdempotentAsStated ==
    Loaded => /\ Normalize(df_most_im) = df_most_im
              /\ Normalize(df_sheet2) = df_sheet2

\* C3, amended: normalising a loaded table a second time changes no cell,
\* for every sheet whose country columns hold values on the fractional or
\* the percentage scale.
C3_IdempotentInScale ==
    Loaded =>
        /\ (InScale(raw_most_im, MostImportantProblem)
              => Normalize(df_most_im) = df_most_im)
        /\ (InScale(raw_sheet2, LeftRightOrientation)
              => Normalize(df_sheet2) = df_sheet2)

\* a loaded table one of whose columns was rescaled from a maximum of 100
\* to a maximum of exactly 1, the case in which a second pass meets the
\* threshold
C3_Witness ==
    /\ Loaded
    /\ InScale(raw_most_im, MostImportantProblem)
    /\ \E c \in CountryColumns(df_most_im, MostImportantProblem) :
          /\ ColumnMax(raw_most_im, c) = 100 * One
          /\ ColumnMax(df_most_im, c) = One

(* C4 *)

\* the sequence lists names in ascending order without repetition
StrictlyAscending(names) ==
    \A i, j \in 1..Len(names) :
        i < j => \E a, b \in 1..Len(Alphabet) :
                    a < b /\ Alphabet[a] = names[i] /\ Alphabet[b] = names[j]

\* C4: the Country Index is exactly the intersection of the two tables'
\* non-label columns, ascending and without repetition, and holds neither
\* label column.
C4_IndexIsIntersection ==
    Indexed =>
        /\ Range(countries) = CountryColumns(df_most_im, MostImportantProblem)
                              \cap CountryColumns(df_sheet2, LeftRightOrientation)
        /\ StrictlyAscending(countries)
        /\ MostImportantProblem \notin Range(countries)
        /\ LeftRightOrientation \notin Range(countries)

----------------------------------------------------------------------------
(* Vocabulary of the properties about the chart functions *)

SingleCalls == {"_create_most_important_chart", "_create_political_orientation_chart"}
ComparisonCalls == {"_create_comparison_issues_chart",
                    "_create_comparison_orientation_chart"}
IssueCalls == {"_create_most_important_chart", "_create_comparison_issues_chart"}

\* the table the last call read
SourceTable == IF result.fn \in IssueCalls THEN df_most_im ELSE df_sheet2

\* the selected labels the source table holds
SelectedInTable == result.selected \cap Range(Labels(SourceTable))

\* the position of a label in the source table
Position(label) == CHOOSE i \in 1..Len(SourceTable.rows) : SourceTable.rows[i].label = label

\* the proportion the source table holds for a label and a country
SourceValue(label, country) == SourceTable.rows[Position(label)].vals[country]

\* the rows of the returned frame are exactly the source rows whose label is
\* selected, in source order, and column col of each holds the source
\* proportion of the country
RowsAreSelectedRows(col) ==
    LET out == result.frame.rows
        src == SourceTable.rows
    IN  /\ Len(out) = Cardinality({i \in 1..Len(src) : src[i].label \in result.selected})
        /\ \E f \in [1..Len(out) -> 1..Len(src)] :
              /\ \A j, k \in 1..Len(out) : j < k => f[j] < f[k]
              /\ \A k \in 1..Len(out) :
                    /\ src[f[k]].label \in result.selected
                    /\ out[k].label = src[f[k]].label
                    /\ out[k].vals[col] = src[f[k]].vals[result.country1]

\* no two rows of the long table carry the same (label, Country)
NoDuplicatePairs(long) ==
    \A i, j \in 1..Len(long) :
        (long[i].label = long[j].label /\ long[i].Country = long[j].Country) => i = j

----------------------------------------------------------------------------
(* C5 *)

\* C5 as stated: each single-country function returns exactly two columns
\* and exactly the selected source rows, in source order, with the country's
\* proportion.
C5_TwoColumnsAsStated ==
    result.fn \in SingleCalls =>
        /\ Len(result.frame.columns) = 2
        /\ RowsAreSelectedRows(result.frame.columns[2])

\* C5, amended: both functions return exactly the selected source rows, in
\* source order, with the country's proportion; the orientation function
\* returns the two columns (label, Proportion), the issues function returns
\* every column of the Problem Table.
C5_SelectedRowsInOrder ==
    /\ result.fn = "_create_political_orientation_chart" =>
          /\ result.frame.columns = <<LeftRightOrientation, Proportion>>
          /\ RowsAreSelectedRows(Proportion)
    /\ result.fn = "_create_most_important_chart" =>
          /\ result.frame.columns = df_most_im.columns
          /\ RowsAreSelectedRows(result.country1)

\* an issues call on a table of two countries whose selection holds one of
\* the table's labels, not the first, and a label the table lacks
C5_Witness ==
    /\ result.fn = "_create_most_important_chart"
    /\ Len(df_most_im.columns) = 3
    /\ ForeignLabel \in result.selected
    /\ Len(result.frame.rows) = 1
    /\ result.frame.rows[1].label = df_most_im.rows[2].label

(* C6 *)

\* C6: for two distinct countries the long table has 2 x |selected labels
\* that occur in the table| rows and no two rows with the same
\* (label, country).
C6_RowCountAndNoDuplicates ==
    (result.fn \in ComparisonCalls /\ result.country1 # result.country2) =>
        /\ Len(result.long) = 2 * Cardinality(SelectedInTable)
        /\ NoDuplicatePairs(result.long)

\* a comparison of two distinct countries whose selection holds every label
\* of the table and a label the table lacks
C6_Witness ==
    /\ result.fn \in ComparisonCalls
    /\ result.country1 # result.country2
    /\ ForeignLabel \in result.selected
    /\ Cardinality(SelectedInTable) = Len(SourceTable.rows)
    /\ Len(result.long) = 2 * Len(SourceTable.rows)

(* C7 *)

\* C7: comparing a country with itself in the Compare Countries view, the
\* comparison and the pivot complete without an error and the long output
\* holds no duplicate (label, country).
C7_SelfComparisonPermitted ==
    (result.fn = "_render_compare_countries" /\ result.country1 = result.country2) =>
        /\ result.error # "ValueError"
        /\ NoDuplicatePairs(result.long)

(* C8 *)

\* C8 as stated: the long table lists, for each selected label in source
\* order, the row of the first country and right after it the row of the
\* second country.
C8_LabelMajorAsStated ==
    result.fn \in ComparisonCalls =>
        /\ Len(result.long) = 2 * Cardinality(SelectedInTable)
        /\ \A k \in 1..Cardinality(SelectedInTable) :
              /\ result.long[2 * k - 1].Country = result.country1
              /\ result.long[2 * k].Country = result.country2
              /\ result.long[2 * k - 1].label = result.long[2 * k].label
        /\ \A j, k \in 1..Cardinality(SelectedInTable) :
              j < k => Position(result.long[2 * j].label) < Position(result.long[2 * k].label)

\* C8, amended: the long table is ordered (country order) x (label order):
\* first the rows of the first country for the selected labels in source
\* order, then the rows of the second country for the same labels in the
\* same order.
C8_CountryMajor ==
    result.fn \in ComparisonCalls =>
        LET n == Cardinality(SelectedInTable)
        IN  /\ Len(result.long) = 2 * n
            /\ \A k \in 1..n :
                  /\ result.long[k].Country = result.country1
                  /\ result.long[n + k].Country = result.country2
                  /\ result.long[k].label = result.long[n + k].label
            /\ \A j, k \in 1..n :
                  j < k => Position(result.long[j].label) < Position(result.long[k].label)

\* a comparison of two distinct countries with at least two selected labels
C8_Witness ==
    /\ result.fn \in ComparisonCalls
    /\ result.country1 # result.country2
    /\ Cardinality(SelectedInTable) >= 2
    /\ result.long[2].Country = result.country1

(* C9 *)

\* C9: for two distinct countries, pivoting the long table back to wide form
\* succeeds and yields, for every selected label of the table and each of
\* the two countries, the proportion of the source table.
C9_PivotRoundTrip ==
    (result.fn \in ComparisonCalls /\ result.country1 # result.country2) =>
        LET wide == pivot(result.long)
        IN  /\ wide.error = "none"
            /\ \A label \in SelectedInTable :
                 \A country \in {result.country1, result.country2} :
                    /\ <<label, country>> \in DOMAIN wide.cells
                    /\ wide.cells[<<label, country>>] = SourceValue(label, country)

\* a comparison of two distinct countries whose proportions differ for a
\* selected label
C9_Witness ==
    /\ result.fn \in ComparisonCalls
    /\ result.country1 # result.country2
    /\ \E label \in SelectedInTable :
          SourceValue(label, result.country1) # SourceValue(label, result.country2)

(* C10 *)

\* the two proportions of a label differ by more than 0.10
DiffersSignificantly(label) ==
    Abs(SourceValue(label, result.country1) - SourceValue(label, result.country2))
        > SignificantDifference

\* the long table holds the proportions of the source table
ProportionsUnchanged ==
    \A i \in 1..Len(result.long) :
        result.long[i].Proportion = SourceValue(result.long[i].label, result.long[i].Country)

----------------------------------------------------------------------------
(* C11 *)

\* the countries the last call of a chart function was given
CalledCountries ==
    IF result.fn \in SingleCalls THEN {result.country1}
    ELSE {result.country1, result.country2}

\* C11: a call of a chart function with a country, or a pair holding a
\* country, that is not in the Country Index is rejected with an error and
\* returns no table.
C11_OutsideIndexRejected ==
    (result.fn \in SingleCalls \cup ComparisonCalls
       /\ ~(CalledCountries \subseteq Range(countries)))
    => result.error # "none"

----------------------------------------------------------------------------
(* C12 *)

\* C12: when 'Most Im' lacks 'Most Important Problem' or 'Sheet2' lacks
\* 'Left-Right Orientation', _load_data stops the script: no table is
\* returned, no Country Index is computed and the session is not set up.
C12_SchemaErrorStopsLoad ==
    (pc # "start"
       /\ (MostImportantProblem \notin Range(raw_most_im.columns)
             \/ LeftRightOrientation \notin Range(raw_sheet2.columns)))
    => /\ pc = "stopped"
       /\ df_most_im = NoFrame
       /\ df_sheet2 = NoFrame
       /\ countries = <<>>
       /\ session_state = NoSession

\* _load_data has stopped on a workbook whose 'Most Im' sheet is well formed
\* and whose 'Sheet2' lacks its label column
C12_Witness ==
    /\ pc = "stopped"
    /\ MostImportantProblem \in Range(raw_most_im.columns)
    /\ LeftRightOrientation \notin Range(raw_sheet2.columns)
    /\ df_most_im = NoFrame

----------------------------------------------------------------------------
(* C13 *)

\* _get_common_countries has been called on the loaded tables
IndexCalled == pc \notin {"start", "loaded"} /\ df_most_im # NoFrame

\* C13: _get_common_countries stops the script exactly when the two tables
\* share no non-label column, and wherever the dashboard has gone on the
\* Country Index is not empty.
C13_StopsExactlyWhenNoneShared ==
    /\ IndexCalled =>
          (pc = "stopped" <=>
             CountryColumns(df_most_im, MostImportantProblem)
               \cap CountryColumns(df_sheet2, LeftRightOrientation) = {})
    /\ Indexed => countries # <<>>

----------------------------------------------------------------------------
(* C14 *)

\* C14: whatever runs of the script and views have followed the load, the
\* Problem Table and the Orientation Table are the tables _load_data made
\* of the two sheets: same columns, same rows in the same order, same cells.
C14_TablesAsLoaded ==
    Loaded =>
        /\ df_most_im = load_data(raw_most_im, raw_sheet2).most_im
        /\ df_sheet2 = load_data(raw_most_im, raw_sheet2).sheet2

\* the Most Important Problems view has shown its formatted data table in
\* the dark theme, after an earlier run of the Political Orientation view
C14_Witness ==
    /\ pc = "done"
    /\ result.fn = "_render_most_important_problems"
    /\ result.frame.rows # <<>>
    /\ \E i \in 1..Len(result.frame.rows) :
          result.frame.rows[i].vals[result.country1]
             # df_most_im.rows[i].vals[result.country1]
    /\ session_state.theme = "dark"
    /\ session_state.last_country_po # "None"

----------------------------------------------------------------------------
(* C15 *)

\* the columns of the sheet that hold at least one value
ColumnsWithValues(sheet, labelName) ==
    {c \in Range(sheet.columns) : ~AllEmpty(sheet, labelName, c)}

\* C15: each loaded table holds exactly the columns of its sheet that hold a
\* value, no column that is empty in one sheet is in the Country Index, the
\* label column is still there and the columns handled as country columns
\* (those after the first) are exactly the non-label columns.
C15_DropKeepsLabelColumn ==
    /\ Loaded =>
          /\ Range(df_most_im.columns)
                = ColumnsWithValues(raw_most_im, MostImportantProblem)
          /\ Range(df_sheet2.columns)
                = ColumnsWithValues(raw_sheet2, LeftRightOrientation)
          /\ MostImportantProblem \in Range(df_most_im.columns)
          /\ LeftRightOrientation \in Range(df_sheet2.columns)
          /\ Range(Rest(df_most_im.columns))
                = CountryColumns(df_most_im, MostImportantProblem)
          /\ Range(Rest(df_sheet2.columns))
                = CountryColumns(df_sheet2, LeftRightOrientation)
    /\ Indexed =>
          Range(countries) \subseteq
              ColumnsWithValues(raw_most_im, MostImportantProblem)
                \cap ColumnsWithValues(raw_sheet2, LeftRightOrientation)

----------------------------------------------------------------------------
(* C16 *)

SingleViews == {"_render_most_important_problems", "_render_political_orientation"}

\* C16: a single-country chart function called with a selection that holds
\* none of the table's labels (the empty selection above all) returns a
\* table with its columns and no rows and raises nothing; a single-country
\* view whose multiselect is empty shows the warning and builds no chart
\* and no table.
C16_EmptySelectionEmptyTable ==
    /\ (result.fn \in SingleCalls /\ SelectedInTable = {}) =>
          /\ result.frame.rows = <<>>
          /\ result.frame.columns # <<>>
          /\ result.error = "none"
    /\ (result.fn \in SingleViews /\ result.selected = {}) =>
          /\ result.warnings # {}
          /\ result.frame = NoFrame
          /\ result.error = "none"

\* the orientation function was called with the empty selection and has
\* returned the two columns without a row
C16_Witness ==
    /\ result.fn = "_create_political_orientation_chart"
    /\ result.selected = {}
    /\ result.frame = [columns |-> <<LeftRightOrientation, Proportion>>, rows |-> <<>>]
    /\ Len(df_sheet2.rows) = 2

----------------------------------------------------------------------------
(* C17 *)

\* the cell the sheet holds for a label and a country
RawCell(sheet, label, country) ==
    (CHOOSE row \in Range(sheet.rows) : row.label = label).vals[country]

\* the text shown, in tenths of a percent, is the percentage of the sheet
ShownAsInSource(shown, sheet, label, country) ==
    shown * 1000 = RawCell(sheet, label, country)

\* the column's maximum exceeds 1 and the cell is a whole number of tenths
\* of a percent
DetectedToOneDecimal(sheet, label, country) ==
    /\ ColumnMax(sheet, country) > One
    /\ RawCell(sheet, label, country) % 1000 = 0

\* every cell of the data tables the last view has shown meets the test
EveryShownCell(Test(_, _, _, _)) ==
    /\ result.fn = "_render_most_important_problems" =>
          \A k \in 1..Len(result.frame.rows) :
             Test(result.frame.rows[k].vals[result.country1], raw_most_im,
                  result.frame.rows[k].label, result.country1)
    /\ result.fn = "_render_political_orientation" =>
          \A k \in 1..Len(result.frame.rows) :
             Test(result.frame.rows[k].vals[Proportion], raw_sheet2,
                  result.frame.rows[k].label, result.country1)
    /\ result.fn = "_render_compare_countries" =>
          /\ \A key \in DOMAIN result.table :
                Test(result.table[key], raw_most_im, key[1], key[2])
          /\ \A key \in DOMAIN result.table_o :
                Test(result.table_o[key], raw_sheet2, key[1], key[2])

ShownAsInSourceWhenDetected(shown, sheet, label, country) ==
    DetectedToOneDecimal(sheet, label, country)
        => ShownAsInSource(shown, sheet, label, country)

----------------------------------------------------------------------------
(* C18 *)

\* the session holds its defaults: __init__ has got past the session state
SessionReady == pc \in {"ready", "page", "done"}

\* both selections hold labels of their tables only
SelectionsAreLabels ==
    SessionReady =>
        /\ Range(session_state.selected_issues) \subseteq Range(Labels(df_most_im))
        /\ Range(session_state.selected_orientations) \subseteq Range(Labels(df_sheet2))

\* the step in which __init__ sets the session defaults gives both
\* selections all labels in source row order
InitialisedToAllLabels ==
    (pc = "indexed" /\ pc' = "ready") =>
        /\ session_state'.selected_issues = Labels(df_most_im)
        /\ session_state'.selected_orientations = Labels(df_sheet2)

\* a step that renders a view offers, in every multiselect it asks, the
\* selection the session held before the step as the default, whichever view
\* made it, stores what the multiselect returns, and leaves a selection
\* alone whose multiselect it does not ask
SelectionsShared ==
    pc = "page" =>
        /\ IF "issues" \in result'.asked
           THEN /\ result'.default_issues = session_state.selected_issues
                /\ Range(session_state'.selected_issues) = result'.selected
           ELSE session_state'.selected_issues = session_state.selected_issues
        /\ IF "orientations" \in result'.asked
           THEN /\ result'.default_orientations = session_state.selected_orientations
                /\ Range(session_state'.selected_orientations)
                      = IF result'.fn = "_render_compare_countries"
                        THEN result'.selected_o ELSE result'.selected
           ELSE session_state'.selected_orientations
                  = session_state.selected_orientations

\* C18: in every session state both selections are subsets of their tables'
\* labels; they start as all labels in source row order; each is one value
\* that the single-country view and the Compare Countries view both offer
\* as the default and both overwrite.
C18_SelectionsSharedSubsets ==
    [][SelectionsAreLabels' /\ InitialisedToAllLabels /\ SelectionsShared]_vars

\* the Compare Countries view was offered the one issue, not the first of
\* the table, that an earlier view had stored, and the user has changed it
C18_Witness ==
    /\ pc = "done"
    /\ result.fn = "_render_compare_countries"
    /\ result.default_issues = <<"Crime">>
    /\ session_state.selected_issues = <<"Inflation">>
    /\ session_state.last_country_mip # "None"

----------------------------------------------------------------------------
(* C19 *)

\* C19: in the Compare Countries view the issues comparison is generated
\* exactly when issues are selected and the issues box is ticked, and the
\* orientation comparison exactly when orientations are selected and the
\* orientation box is ticked, whatever the other section did.  The formula
\* looks at two distinct countries; comparing a country with itself is the
\* matter of C7.
C19_SectionsIndependent ==
    (result.fn = "_render_compare_countries" /\ result.country1 # result.country2) =>
        /\ result.long # <<>>
              <=> (session_state.selected_issues # <<>>
                     /\ session_state.show_issues_chart)
        /\ result.long_o # <<>>
              <=> (session_state.selected_orientations # <<>>
                     /\ session_state.show_orientation_chart)

----------------------------------------------------------------------------
(* C20 *)

\* both tracked countries are None or in the Country Index
LastCountriesInIndex ==
    SessionReady =>
        /\ session_state.last_country_mip \in {"None"} \cup Range(countries)
        /\ session_state.last_country_po \in {"None"} \cup Range(countries)

\* the step is a render of the view with a non-empty selection
RendersWithSelection(view) ==
    pc = "page" /\ result'.fn = view /\ result'.selected # {}

\* a render of a single-country view with a non-empty selection stores the
\* country chosen; every other step leaves the tracked country as it was
LastCountriesTracked ==
    /\ IF RendersWithSelection("_render_most_important_problems")
       THEN session_state'.last_country_mip = result'.country1
       ELSE session_state'.last_country_mip = session_state.last_country_mip
    /\ IF RendersWithSelection("_render_political_orientation")
       THEN session_state'.last_country_po = result'.country1
       ELSE session_state'.last_country_po = session_state.last_country_po

\* C20: last_country_mip and last_country_po are None or a country of the
\* Country Index; a render of the view with a non-empty selection sets the
\* view's tracked country to the country chosen; a render with an empty
\* selection and every render of another view leave it unchanged.
C20_LastCountryTracked ==
    [][LastCountriesInIndex' /\ LastCountriesTracked]_vars

\* the Most Important Problems view was rendered for BE with an empty
\* selection and the tracked country is still AT, while the Political
\* Orientation view has tracked BE
C20_Witness ==
    /\ pc = "done"
    /\ result.fn = "_render_most_important_problems"
    /\ result.selected = {}
    /\ result.country1 = "BE"
    /\ session_state.last_country_mip = "AT"
    /\ session_state.last_country_po = "BE"

====
